---- MODULE Spec2Model ----
(***************************************************************************)
(* Model of the MLB model-performance tracker:                             *)
(*   model_performance_tracker.py   the backfill-and-evaluate script       *)
(*   merge_espn_into_picks_log.py   re-scoring of the log from ESPN scores *)
(*   generate_picks_log_from_sportsdata.py   the evaluators of the builder *)
(*                                                                         *)
(* Text (pick texts, matchups, CSV cells) is a sequence of one-character   *)
(* strings.  Betting lines are floats with at most two decimals; they are  *)
(* kept as integers in hundredths (1.5 is 150), scores are plain integers. *)
(***************************************************************************)
EXTENDS Integers, Sequences, FiniteSets, TLC

VARIABLES
    file,       \* picks_log.csv: the persisted log, a sequence of rows
    cache,      \* the st.cache_data memo of load_picks_log
    log_df,     \* the module-level data frame of the running script
    pc,         \* position of the script run
    d,          \* loop variable of the backfill loop
    today,      \* date.today(), as a day number (SEASON_START is day 1)
    seed,       \* the hash seed of the running Python process
    api,        \* what statsapi.mlb.com answers for each date
    fetched,    \* history: what fetch_final_score returned for each row
    writes,     \* history: number of to_csv calls in the current run
    runs,       \* history: number of runs of the script so far
    sweep,      \* history: the range of the current run and the dates whose
                \* schedule request was answered
    prevFinal,  \* history: the log as the last completed run left it
    streak,     \* history: complete runs in a row with the same responses
    espn,       \* espn_scores.csv
    picks,      \* picks_log.csv in the builder's columns (Away Team, Home Team)
    mpc,        \* position of merge_espn_into_picks_log.py
    ev_in,      \* inputs of the evaluators (pure-function checks)
    ev_out      \* their results

vars == <<file, cache, log_df, pc, d, today, seed, api, fetched, writes, runs, sweep,
          prevFinal, streak, espn, picks, mpc, ev_in, ev_out>>

(***************************************************************************)
(* Python string operations on character sequences                         *)
(***************************************************************************)
Digits == <<"0", "1", "2", "3", "4", "5", "6", "7", "8", "9">>

IsDigit(c) == \E k \in 1..10 : Digits[k] = c

DigitVal(c) == (CHOOSE k \in 1..10 : Digits[k] = c) - 1

IsSpace(c) == c = " "

\* s.find(sub) + 1: position of the first occurrence, 0 when there is none
IndexOf(sub, s) ==
    LET hits == {k \in 1..(Len(s) - Len(sub) + 1) :
                    SubSeq(s, k, k + Len(sub) - 1) = sub}
    IN IF hits = {} THEN 0 ELSE CHOOSE k \in hits : \A j \in hits : k <= j

\* sub in s
Contains(sub, s) == IndexOf(sub, s) # 0

\* s.startswith(p)
StartsWith(s, p) == Len(s) >= Len(p) /\ SubSeq(s, 1, Len(p)) = p

\* s.split(sep)
RECURSIVE Split(_, _)
Split(s, sep) ==
    LET k == IndexOf(sep, s)
    IN IF k = 0 THEN <<s>>
       ELSE <<SubSeq(s, 1, k - 1)>> \o Split(SubSeq(s, k + Len(sep), Len(s)), sep)

\* s.split(): split on runs of whitespace, no empty fields
RECURSIVE SplitWS(_)
SplitWS(s) ==
    IF s = <<>> THEN <<>>
    ELSE IF IsSpace(Head(s)) THEN SplitWS(Tail(s))
    ELSE LET ends == {k \in 1..Len(s) : IsSpace(s[k])}
             e == IF ends = {} THEN Len(s) + 1
                  ELSE CHOOSE k \in ends : \A j \in ends : k <= j
         IN <<SubSeq(s, 1, e - 1)>> \o SplitWS(SubSeq(s, e, Len(s)))

\* s.strip()
RECURSIVE Strip(_)
Strip(s) ==
    IF s = <<>> THEN s
    ELSE IF IsSpace(Head(s)) THEN Strip(Tail(s))
    ELSE IF IsSpace(s[Len(s)]) THEN Strip(SubSeq(s, 1, Len(s) - 1))
    ELSE s

RECURSIVE DigitsVal(_)
DigitsVal(s) ==
    IF s = <<>> THEN 0 ELSE 10 * DigitsVal(SubSeq(s, 1, Len(s) - 1)) + DigitVal(s[Len(s)])

AllDigits(s) == \A k \in 1..Len(s) : IsDigit(s[k])

\* float(s) for decimal literals of at most two decimals, in hundredths;
\* ok = FALSE stands for the ValueError
ParseFloat(s) ==
    LET t    == Strip(s)
        neg  == t # <<>> /\ Head(t) = "-"
        u    == IF t # <<>> /\ Head(t) \in {"-", "+"} THEN Tail(t) ELSE t
        p    == IndexOf(<<".">>, u)
        ip   == IF p = 0 THEN u ELSE SubSeq(u, 1, p - 1)
        fp   == IF p = 0 THEN <<>> ELSE SubSeq(u, p + 1, Len(u))
        good == /\ AllDigits(ip) /\ AllDigits(fp)
                /\ Len(ip) + Len(fp) > 0
                /\ Len(fp) <= 2
        frac == IF Len(fp) = 0 THEN 0
                ELSE IF Len(fp) = 1 THEN 10 * DigitsVal(fp)
                ELSE DigitsVal(fp)
        mag  == 100 * DigitsVal(ip) + frac
    IN IF good THEN [ok |-> TRUE, val |-> IF neg THEN 0 - mag ELSE mag]
       ELSE [ok |-> FALSE, val |-> 0]

\* str(n) of a non-negative int
RECURSIVE NatStr(_)
NatStr(n) ==
    IF n < 10 THEN <<Digits[n + 1]>> ELSE NatStr(n \div 10) \o <<Digits[(n % 10) + 1]>>

\* str(n) of an int, the text of an integer cell
IntStr(n) == IF n < 0 THEN <<"-">> \o NatStr(0 - n) ELSE NatStr(n)

\* repr of a non-negative float that was rounded to two decimals:
\* the shortest text that reads back as the same number (9.0, 8.5, 8.73)
FormatFloat(v) ==
    LET f == v % 100
    IN NatStr(v \div 100) \o <<".">> \o
       (IF f % 10 = 0 THEN <<Digits[(f \div 10) + 1]>>
        ELSE <<Digits[(f \div 10) + 1], Digits[(f % 10) + 1]>>)

(***************************************************************************)
(* Texts of the programs                                                   *)
(***************************************************************************)
T_Home == <<"H", "o", "m", "e">>
T_Away == <<"A", "w", "a", "y">>
T_Over == <<"O", "v", "e", "r">>
T_Under == <<"U", "n", "d", "e", "r">>
T_At == <<" ", "@", " ">>
T_Dash == <<"-">>
T_Blank == <<>>
HomePick == <<"H", "o", "m", "e", " ", "-", "1", ".", "5">>
AwayPick == <<"A", "w", "a", "y", " ", "+", "1", ".", "5">>

Last(s) == s[Len(s)]

NoScore == [some |-> FALSE, home |-> 0, away |-> 0]

Final(h, a) == [some |-> TRUE, home |-> h, away |-> a]

(***************************************************************************)
(* model_performance_tracker.py: evaluate_row                              *)
(***************************************************************************)
\* lines 60-65; "raise" is the ValueError of float()
SpreadLeg(pick, actual_margin) ==
    IF Contains(T_Home, pick)
    THEN LET spread_line == ParseFloat(Last(Split(pick, <<"-">>)))
         IN IF ~spread_line.ok THEN "raise"
            ELSE IF 100 * actual_margin > spread_line.val THEN "WIN" ELSE "LOSS"
    ELSE IF Contains(T_Away, pick)
    THEN LET spread_line == ParseFloat(Last(Split(pick, <<"+">>)))
         IN IF ~spread_line.ok THEN "raise"
            ELSE IF 100 * actual_margin < 0 - spread_line.val THEN "WIN" ELSE "LOSS"
    ELSE "PENDING"

\* lines 67-72; "raise" is the IndexError of [1] or the ValueError of float()
TotalLeg(pick, actual_total) ==
    LET words == SplitWS(pick)
        line  == ParseFloat(words[2])
    IN IF Contains(T_Over, pick)
       THEN IF Len(words) < 2 \/ ~line.ok THEN "raise"
            ELSE IF 100 * actual_total > line.val THEN "WIN" ELSE "LOSS"
       ELSE IF Contains(T_Under, pick)
       THEN IF Len(words) < 2 \/ ~line.ok THEN "raise"
            ELSE IF 100 * actual_total < line.val THEN "WIN" ELSE "LOSS"
       ELSE "PENDING"

\* evaluate_row with the reset of lines 49-52 placed after the test of line 54
evaluate_row_LateReset(row, score) ==
    LET pending == [row EXCEPT !.ActualMargin = T_Dash, !.SpreadResult = "PENDING",
                               !.ActualTotal = T_Dash, !.TotalResult = "PENDING"]
        actual_margin == score.home - score.away
        actual_total  == score.home + score.away
        sr == SpreadLeg(row.ModelPickSpread, actual_margin)
        tr == TotalLeg(row.ModelPickTotal, actual_total)
    IN IF ~score.some THEN [raised |-> FALSE, row |-> row]
       ELSE IF sr = "raise" \/ tr = "raise" THEN [raised |-> TRUE, row |-> pending]
       ELSE [raised |-> FALSE,
             row |-> [pending EXCEPT !.SpreadResult = sr, !.TotalResult = tr,
                                     !.ActualMargin = IntStr(actual_margin),
                                     !.ActualTotal = IntStr(actual_total)]]

\* evaluate_row with the total result of lines 69 and 72 stored under
\* "Model Pick (Total)"
evaluate_row_Clobber(row, score) ==
    LET pending == [row EXCEPT !.ActualMargin = T_Dash, !.SpreadResult = "PENDING",
                               !.ActualTotal = T_Dash, !.TotalResult = "PENDING"]
        actual_margin == score.home - score.away
        actual_total  == score.home + score.away
        sr == SpreadLeg(row.ModelPickSpread, actual_margin)
        tr == TotalLeg(row.ModelPickTotal, actual_total)
    IN IF ~score.some THEN [raised |-> FALSE, row |-> pending]
       ELSE IF sr = "raise" \/ tr = "raise" THEN [raised |-> TRUE, row |-> pending]
       ELSE [raised |-> FALSE,
             row |-> [pending EXCEPT !.SpreadResult = sr,
                                     !.ModelPickTotal = <<"W", "I", "N">>,
                                     !.ActualMargin = IntStr(actual_margin),
                                     !.ActualTotal = IntStr(actual_total)]]

\* evaluate_row once fetch_final_score has returned score; raised = TRUE
\* when an exception leaves the function (and DataFrame.apply)
evaluate_row(row, score) ==
    LET pending == [row EXCEPT !.ActualMargin = T_Dash, !.SpreadResult = "PENDING",
                               !.ActualTotal = T_Dash, !.TotalResult = "PENDING"]
        actual_margin == score.home - score.away
        actual_total  == score.home + score.away
        sr == SpreadLeg(row.ModelPickSpread, actual_margin)
        tr == TotalLeg(row.ModelPickTotal, actual_total)
    IN IF ~score.some THEN [raised |-> FALSE, row |-> pending]
       ELSE IF sr = "raise" \/ tr = "raise" THEN [raised |-> TRUE, row |-> pending]
       ELSE [raised |-> FALSE,
             row |-> [pending EXCEPT !.SpreadResult = sr, !.TotalResult = tr,
                                     !.ActualMargin = IntStr(actual_margin),
                                     !.ActualTotal = IntStr(actual_total)]]

(***************************************************************************)
(* merge_espn_into_picks_log.py: the evaluators.  A number that may be NaN *)
(* is [nan, val]; every comparison with NaN is false.                      *)
(***************************************************************************)
NaN == [nan |-> TRUE, val |-> 0]

Num(n) == [nan |-> FALSE, val |-> n]

evaluate_spread_result(pick, actual_margin) ==
    IF pick = HomePick
    THEN IF ~actual_margin.nan /\ 100 * actual_margin.val > 150 THEN "WIN" ELSE "LOSS"
    ELSE IF pick = AwayPick
    THEN IF ~actual_margin.nan /\ 100 * actual_margin.val < 0 - 150 THEN "WIN" ELSE "LOSS"
    ELSE "LOSS"

\* "None" is the value of falling off the end of the function
evaluate_total_result(pick, actual_total) ==
    LET words  == SplitWS(pick)
        target == ParseFloat(Last(words))
    IN IF words = <<>> \/ ~target.ok THEN "LOSS"
       ELSE IF StartsWith(pick, T_Over)
       THEN IF ~actual_total.nan /\ 100 * actual_total.val > target.val THEN "WIN" ELSE "LOSS"
       ELSE IF StartsWith(pick, T_Under)
       THEN IF ~actual_total.nan /\ 100 * actual_total.val < target.val THEN "WIN" ELSE "LOSS"
       ELSE "None"

(***************************************************************************)
(* generate_picks_log_from_sportsdata.py: the evaluators.  model_margin    *)
(* and the scores are ints, the vegas lines and model_total are hundredths *)
(***************************************************************************)
evaluate_spread(model_margin, vegas_spread, actual_margin) ==
    LET model_pick == IF 100 * model_margin > vegas_spread THEN HomePick ELSE AwayPick
        result == IF \/ (model_pick = HomePick /\ 100 * actual_margin > 150)
                     \/ (model_pick = AwayPick /\ 100 * actual_margin < 0 - 150)
                  THEN "WIN" ELSE "LOSS"
    IN <<model_pick, result>>

evaluate_total(model_total, vegas_total, actual_total) ==
    LET model_pick == IF model_total > vegas_total
                      THEN T_Over \o <<" ">> \o FormatFloat(vegas_total)
                      ELSE T_Under \o <<" ">> \o FormatFloat(vegas_total)
        result == IF \/ (StartsWith(model_pick, T_Over) /\ 100 * actual_total > vegas_total)
                     \/ (StartsWith(model_pick, T_Under) /\ 100 * actual_total < vegas_total)
                  THEN "WIN" ELSE "LOSS"
    IN <<model_pick, result>>

(***************************************************************************)
(* The evaluators applied to drawn inputs                                  *)
(***************************************************************************)
Runs == 3..6

SpreadLines == {150, 200}

TotalLines == {850, 900}

\* the text a prediction is stored as: side and line, as lines 89-90 write it
SpreadText(side, line) ==
    IF side = "Home" THEN T_Home \o <<" ", "-">> \o FormatFloat(line)
    ELSE T_Away \o <<" ", "+">> \o FormatFloat(line)

TotalText(dir, line) ==
    (IF dir = "Over" THEN T_Over ELSE T_Under) \o <<" ">> \o FormatFloat(line)

MalformedSpreads ==
    { <<"P", "i", "c", "k">>,
      <<"H", "o", "m", "e", " ", "-", "x">>,
      <<"A", "w", "a", "y", " ", "+">>,
      <<>> }

MalformedTotals ==
    { <<"O", "v", "e", "r", " ", "x">>,
      <<"U", "n", "d", "e", "r">>,
      <<"T", "o", "t", "a", "l", " ", "9", ".", "0">> }

SpreadInputs ==
    { [text |-> SpreadText(sd, l), ok |-> TRUE, side |-> sd, line |-> l] :
        sd \in {"Home", "Away"}, l \in SpreadLines }
    \cup { [text |-> t, ok |-> FALSE, side |-> "?", line |-> 0] : t \in MalformedSpreads }

TotalInputs ==
    { [text |-> TotalText(dr, l), ok |-> TRUE, side |-> dr, line |-> l] :
        dr \in {"Over", "Under"}, l \in TotalLines }
    \cup { [text |-> t, ok |-> FALSE, side |-> "?", line |-> 0] : t \in MalformedTotals }

ScoreInputs == {NoScore} \cup {Final(h, a) : h \in Runs, a \in Runs}

NoEval == [fn |-> "none"]

EvalRow(in) ==
    [Date |-> 1, Matchup |-> <<"B">> \o T_At \o <<"A">>,
     ModelPickSpread |-> in.spread.text, ModelPickTotal |-> in.total.text,
     ActualMargin |-> T_Blank, SpreadResult |-> "NaN",
     ActualTotal |-> T_Blank, TotalResult |-> "NaN"]

\* evaluate_row of the tracker on the drawn row and score
EvalTracker ==
    /\ ev_out = NoEval
    /\ \E r \in {evaluate_row(EvalRow(ev_in), ev_in.score)} :
         ev_out' = [fn |-> "evaluate_row", raised |-> r.raised,
                    spread |-> r.row.SpreadResult, total |-> r.row.TotalResult,
                    margin |-> r.row.ActualMargin, sum |-> r.row.ActualTotal]
    /\ UNCHANGED <<file, cache, log_df, pc, d, today, seed, api, fetched, writes, runs, sweep,
                   prevFinal, streak, espn, picks, mpc, ev_in>>

\* the two lambdas of merge main (lines 44-48) on the drawn row; a pick
\* without a score row has NaN actuals (lines 40-41)
EvalMerge ==
    /\ ev_out = NoEval
    /\ LET sc == ev_in.score
           am == IF sc.some THEN Num(sc.home - sc.away) ELSE NaN
           at == IF sc.some THEN Num(sc.home + sc.away) ELSE NaN
       IN ev_out' = [fn |-> "merge", raised |-> FALSE,
                     spread |-> evaluate_spread_result(ev_in.spread.text, am),
                     total |-> evaluate_total_result(ev_in.total.text, at)]
    /\ UNCHANGED <<file, cache, log_df, pc, d, today, seed, api, fetched, writes, runs, sweep,
                   prevFinal, streak, espn, picks, mpc, ev_in>>

\* evaluate_spread and evaluate_total of the builder (lines 117-118): the
\* picks come from model and vegas numbers, the results from the final score
EvalGenerate ==
    /\ ev_out = NoEval
    /\ ev_in.score.some
    /\ \E model_margin \in {0 - 2, 2}, vegas_spread \in {0 - 150, 150},
          model_total \in {850, 950}, vegas_total \in TotalLines :
         LET sp == evaluate_spread(model_margin, vegas_spread,
                                   ev_in.score.home - ev_in.score.away)
             tt == evaluate_total(model_total, vegas_total,
                                  ev_in.score.home + ev_in.score.away)
         IN ev_out' = [fn |-> "generate", raised |-> FALSE,
                       spick |-> sp[1], spread |-> sp[2],
                       tpick |-> tt[1], total |-> tt[2],
                       over |-> model_total > vegas_total, tline |-> vegas_total]
    /\ UNCHANGED <<file, cache, log_df, pc, d, today, seed, api, fetched, writes, runs, sweep,
                   prevFinal, streak, espn, picks, mpc, ev_in>>

(***************************************************************************)
(* model_performance_tracker.py: the backfill-and-evaluate script          *)
(***************************************************************************)
MaxDate == 2

MaxRuns == 2

Seeds == {1, 2}

Code(c) == CHOOSE k \in 1..4 : <<"A", "B", "@", " ">>[k] = c

\* hash() of a str: fixed within a process, different from one process to
\* the next (hash randomisation); sd is the seed of the process
RECURSIVE Hash(_, _)
Hash(sd, s) ==
    IF s = <<>> THEN 7 * sd ELSE (31 * Hash(sd, SubSeq(s, 1, Len(s) - 1)) + 83 * sd * Code(s[Len(s)])) % 1009

Game(h, a, sc) == [home |-> h, away |-> a, score |-> sc]

\* an exception in requests.get(url).json() or in [0] of an empty "dates"
Fail == [ok |-> FALSE, games |-> <<>>]

Games(gs) == [ok |-> TRUE, games |-> gs]

Scheduled == Games(<<Game(<<"A">>, <<"B">>, NoScore)>>)

Played == Games(<<Game(<<"A">>, <<"B">>, Final(6, 3))>>)

Doubleheader == Games(<<Game(<<"A">>, <<"B">>, Final(4, 5)), Game(<<"A">>, <<"B">>, Final(6, 3))>>)

\* the answers of the schedule endpoint for one date: a day without games
\* (the [0] of line 27 and line 83 raises), a game not yet played, a game
\* with its final score, two games of the same teams
Responses == {Fail, Scheduled, Played, Doubleheader}

NoCache == [set |-> FALSE, val |-> <<>>]

\* lines 13-21: st.cache_data answers from the memo once it is filled; a
\* missing file reads as the empty frame
load_picks_log(c, f) == IF c.set THEN c.val ELSE f

Memo(c, f) == IF c.set THEN c ELSE [set |-> TRUE, val |-> f]

\* lines 23-39, on the answer resp of the endpoint
fetch_final_score(resp, team_name) ==
    LET hits == {k \in 1..Len(resp.games) :
                    team_name \in {resp.games[k].home, resp.games[k].away}}
        g == resp.games[CHOOSE k \in hits : \A j \in hits : k <= j]
    IN IF ~resp.ok \/ hits = {} THEN NoScore ELSE g.score

\* line 43
HomeTeamOf(matchup) == Split(matchup, T_At)[2]

\* lines 84-96: the pick of one game
ModelPick(sd, game_date, game) ==
    LET home == game.home
        away == game.away
        matchup == away \o T_At \o home
        margin == ((Hash(sd, home) - Hash(sd, away)) % 5) - 2
        total == 650 + (Hash(sd, home \o away) % 300)
    IN [Date |-> game_date, Matchup |-> matchup,
        ModelPickSpread |-> IF margin > 0 THEN HomePick ELSE AwayPick,
        ModelPickTotal |-> IF total > 800 THEN T_Over \o <<" ">> \o FormatFloat(total)
                           ELSE T_Under \o <<" ">> \o FormatFloat(total),
        ActualMargin |-> T_Blank, SpreadResult |-> "NaN",
        ActualTotal |-> T_Blank, TotalResult |-> "NaN"]

\* lines 78-99
simulate_model_picks(sd, game_date, resp) ==
    IF ~resp.ok THEN <<>>
    ELSE [k \in 1..Len(resp.games) |-> ModelPick(sd, game_date, resp.games[k])]

\* update_picks_log without the filter of line 105
new_entries_Unfiltered(log, selected_date, new_picks) == new_picks

\* lines 103-105
new_entries(log, selected_date, new_picks) ==
    LET existing_matchups == {log[k].Matchup : k \in {j \in 1..Len(log) : log[j].Date = selected_date}}
        fresh(p) == p.Matchup \notin existing_matchups
    IN SelectSeq(new_picks, fresh)

Running == pc \in {"backfill", "evaluate"}

\* a run of the script begins; line 123: log_df = load_picks_log()
Start ==
    /\ pc \in {"idle", "done"}
    /\ runs < MaxRuns
    /\ runs' = runs + 1
    /\ cache' = Memo(cache, file)
    /\ log_df' = load_picks_log(cache, file)
    /\ pc' = "backfill"
    /\ d' = 1
    /\ writes' = 0
    /\ fetched' = <<>>
    /\ sweep' = [range |-> today, ok |-> {}]
    /\ UNCHANGED <<file, today, seed, api, prevFinal, streak, espn, picks, mpc, ev_in, ev_out>>

\* lines 124-125 and 101-112: one iteration of the backfill loop,
\* log_df = update_picks_log(d); up = FALSE when the request of
\* simulate_model_picks fails
Backfill ==
    /\ pc = "backfill"
    /\ \E up \in BOOLEAN :
         LET log == load_picks_log(cache, file)
             new_picks == simulate_model_picks(seed, d, IF up THEN api[d] ELSE Fail)
             entries == new_entries(log, d, new_picks)
             updated == log \o entries
         IN /\ IF entries # <<>>
               THEN /\ file' = updated
                    /\ writes' = writes + 1
                    /\ log_df' = updated
               ELSE /\ log_df' = log
                    /\ UNCHANGED <<file, writes>>
            /\ sweep' = IF up /\ api[d].ok THEN [sweep EXCEPT !.ok = @ \cup {d}] ELSE sweep
            /\ streak' = IF up \/ ~api[d].ok THEN streak ELSE 0 - 1
            /\ prevFinal' = IF up \/ ~api[d].ok THEN prevFinal ELSE <<>>
    /\ cache' = Memo(cache, file)
    /\ IF d < today
       THEN d' = d + 1 /\ UNCHANGED pc
       ELSE d' = 0 /\ pc' = "evaluate"
    /\ UNCHANGED <<today, seed, api, fetched, runs, espn, picks, mpc, ev_in, ev_out>>

\* what one call of fetch_final_score for a row returns; up = FALSE when
\* the request of this call fails
FetchFor(row, up) ==
    LET resp == IF up THEN api[row.Date] ELSE Fail
    IN [up |-> resp.ok, score |-> fetch_final_score(resp, HomeTeamOf(row.Matchup))]

\* the fetch and the evaluation of every row of df, all requests answered
\* (up = TRUE) or all failing
RECURSIVE ApplyRows(_, _)
ApplyRows(df, up) ==
    IF df = <<>> THEN <<>>
    ELSE LET got == FetchFor(Head(df), up)
         IN <<[got |-> got, res |-> evaluate_row(Head(df), got.score)]>>
            \o ApplyRows(Tail(df), up)

\* lines 127-130: log_df.apply(evaluate_row, axis=1) and to_csv; every row
\* makes a request of its own, any of which may fail (ups[k] = FALSE).  An
\* exception that leaves evaluate_row ends the run before line 130.
Evaluate ==
    /\ pc = "evaluate"
    /\ \E allUp \in {ApplyRows(log_df, TRUE)}, allDown \in {ApplyRows(log_df, FALSE)},
          ups \in [1..Len(log_df) -> BOOLEAN] :
            LET n == Len(log_df)
                got == [k \in 1..n |-> IF ups[k] THEN allUp[k].got ELSE allDown[k].got]
                res == [k \in 1..n |-> IF ups[k] THEN allUp[k].res ELSE allDown[k].res]
                out == [k \in 1..n |-> res[k].row]
                clean == streak >= 0 /\ \A k \in 1..n : got[k].up = allUp[k].got.up
            IN IF \E k \in 1..n : res[k].raised
               THEN /\ pc' = "idle"
                    /\ log_df' = <<>>
                    /\ streak' = 0
                    /\ prevFinal' = <<>>
                    /\ UNCHANGED <<file, writes, fetched>>
               ELSE /\ pc' = "done"
                    /\ log_df' = out
                    /\ file' = out
                    /\ writes' = writes + 1
                    /\ fetched' = got
                    /\ streak' = IF ~clean THEN 0 ELSE IF streak = 0 THEN 1 ELSE 2
                    /\ prevFinal' = IF clean THEN out ELSE <<>>
    /\ UNCHANGED <<cache, d, today, seed, api, runs, sweep, espn, picks, mpc, ev_in, ev_out>>

\* history: no run observed
NoSweep == [range |-> 0, ok |-> {}]

\* history: what was observed of the last run is dropped when something
\* happens after it
Forget ==
    /\ pc' = "idle"
    /\ d' = 0
    /\ log_df' = <<>>
    /\ fetched' = <<>>
    /\ writes' = 0
    /\ sweep' = NoSweep

\* the run is stopped before it ends (the app is rerun or stopped)
Interrupt ==
    /\ Running
    /\ Forget
    /\ streak' = 0
    /\ prevFinal' = <<>>
    /\ UNCHANGED <<file, cache, today, seed, api, runs, espn, picks, mpc, ev_in, ev_out>>

\* a new server process: the memo is empty, the hash seed is drawn again
Restart ==
    /\ ~Running
    /\ runs < MaxRuns
    /\ cache # NoCache
    /\ cache' = NoCache
    /\ \E sd \in Seeds : seed' = sd
    /\ Forget
    /\ UNCHANGED <<file, today, api, runs, prevFinal, streak, espn, picks, mpc, ev_in, ev_out>>

\* date.today() moves on: the range of line 124 grows by a day
NextDay ==
    /\ ~Running
    /\ runs < MaxRuns
    /\ today < MaxDate
    /\ today' = today + 1
    /\ \E r \in Responses : api' = [api EXCEPT ![today + 1] = r]
    /\ Forget
    /\ streak' = 0
    /\ prevFinal' = <<>>
    /\ UNCHANGED <<file, cache, seed, runs, espn, picks, mpc, ev_in, ev_out>>

\* a scheduled game is played: the endpoint reports its score from now on
GameEnds ==
    /\ ~Running
    /\ runs < MaxRuns
    /\ \E dd \in 1..today :
         /\ api[dd] = Scheduled
         /\ api' = [api EXCEPT ![dd] = Played]
    /\ Forget
    /\ streak' = 0
    /\ prevFinal' = <<>>
    /\ UNCHANGED <<file, cache, today, seed, runs, espn, picks, mpc, ev_in, ev_out>>

TrackerInit ==
    /\ file = <<>>
    /\ cache = NoCache
    /\ log_df = <<>>
    /\ pc = "idle"
    /\ d = 0
    /\ today = 1
    /\ seed \in Seeds
    /\ \E r \in Responses : api = [dd \in 1..MaxDate |-> IF dd = 1 THEN r ELSE Fail]
    /\ fetched = <<>>
    /\ writes = 0
    /\ runs = 0
    /\ sweep = NoSweep
    /\ prevFinal = <<>>
    /\ streak = 0

MergeIdle == espn = <<>> /\ picks = <<>> /\ mpc = "off"

EvalIdle == ev_in = NoEval /\ ev_out = NoEval

Init == TrackerInit /\ MergeIdle /\ EvalIdle

Next ==
    \/ Start
    \/ Backfill
    \/ Evaluate
    \/ Interrupt
    \/ Restart
    \/ NextDay
    \/ GameEnds

Spec == Init /\ [][Next]_vars

(***************************************************************************)
(* The evaluators as a specification of their own                          *)
(***************************************************************************)
TrackerIdle ==
    /\ file = <<>> /\ cache = NoCache /\ log_df = <<>> /\ pc = "off"
    /\ d = 0 /\ today = 1 /\ seed = 1
    /\ api = [dd \in 1..MaxDate |-> Fail]
    /\ fetched = <<>> /\ writes = 0 /\ runs = 0 /\ sweep = NoSweep
    /\ prevFinal = <<>> /\ streak = 0

InitEval ==
    /\ TrackerIdle
    /\ MergeIdle
    /\ ev_in \in [spread : SpreadInputs, total : TotalInputs, score : ScoreInputs]
    /\ ev_out = NoEval

NextEval == EvalTracker \/ EvalMerge \/ EvalGenerate

SpecEval == InitEval /\ [][NextEval]_vars

(***************************************************************************)
(* generate_picks_log_from_sportsdata.py (run), scrape_espn_scores.py and  *)
(* merge_espn_into_picks_log.py (main) on one date                         *)
(***************************************************************************)
NYY == <<"N", "Y", "Y">>

BOS == <<"B", "O", "S">>

CHC == <<"C", "H", "C">>

\* lines 36-39 of the builder: model_total in hundredths
simulate_model(home, away) ==
    <<Len(home) - Len(away), 850 + 100 * ((Len(home) + Len(away)) % 3)>>

\* a game as the odds and scores endpoints of the builder describe it
OddsGames ==
    [home : {NYY}, away : {BOS, CHC}, final : BOOLEAN, odds : BOOLEAN,
     home_score : {2, 6}, away_score : {3}, spread : {0 - 150}, total : {900}]

\* lines 73-132 of the builder: the row of one game, <<>> when it is skipped
BuilderRows(game_date, game) ==
    LET total_score == game.home_score + game.away_score
        actual_margin == game.home_score - game.away_score
        model == simulate_model(game.home, game.away)
        sp == evaluate_spread(model[1], game.spread, actual_margin)
        tt == evaluate_total(model[2], game.total, total_score)
    IN IF ~game.final THEN <<>>
       ELSE IF game.home_score > 15 \/ game.away_score > 15 \/ total_score > 30 THEN <<>>
       ELSE IF ~game.odds THEN <<>>
       ELSE <<[Date |-> game_date, AwayTeam |-> game.away, HomeTeam |-> game.home,
               ModelPickSpread |-> sp[1], ModelPickTotal |-> tt[1],
               ActualMargin |-> IntStr(actual_margin), SpreadResult |-> sp[2],
               ActualTotal |-> IntStr(total_score), TotalResult |-> tt[2]]>>

RECURSIVE BuildAll(_, _)
BuildAll(game_date, games) ==
    IF games = <<>> THEN <<>>
    ELSE BuilderRows(game_date, Head(games)) \o BuildAll(game_date, Tail(games))

UpToTwo(S) == {<<>>} \cup {<<a>> : a \in S} \cup {<<a, b>> : a \in S, b \in S}

\* lines 64-140 of the builder: the log is written once, from scratch
run ==
    /\ mpc = "start"
    /\ \E games \in UpToTwo(OddsGames) : picks' = BuildAll(1, games)
    /\ mpc' = "built"
    /\ UNCHANGED <<file, cache, log_df, pc, d, today, seed, api, fetched, writes, runs, sweep,
                   prevFinal, streak, espn, ev_in, ev_out>>

\* the events of the ESPN scoreboard that parse_espn_json keeps
EspnEvents ==
    [home : {NYY}, away : {BOS, CHC}, home_score : {2, 6}, away_score : {3}]

\* lines 32-46 of the scraper
EspnRow(game_date, e) ==
    [Date |-> game_date, AwayTeam |-> e.away, HomeTeam |-> e.home,
     AwayScore |-> e.away_score, HomeScore |-> e.home_score,
     Total |-> e.away_score + e.home_score]

\* run_scraper: espn_scores.csv is written
run_scraper ==
    /\ mpc = "built"
    /\ \E events \in UpToTwo(EspnEvents) :
         espn' = [k \in 1..Len(events) |-> EspnRow(1, events[k])]
    /\ mpc' = "scraped"
    /\ UNCHANGED <<file, cache, log_df, pc, d, today, seed, api, fetched, writes, runs, sweep,
                   prevFinal, streak, picks, ev_in, ev_out>>

SameGame(p, e) ==
    p.Date = e.Date /\ p.AwayTeam = e.AwayTeam /\ p.HomeTeam = e.HomeTeam

\* lines 32-37: the rows of the left merge that come from one row of the log
RECURSIVE Matches(_, _)
Matches(p, scores) ==
    IF scores = <<>> THEN <<>>
    ELSE (IF SameGame(p, Head(scores))
          THEN <<[pick |-> p, home |-> Num(Head(scores).HomeScore),
                  away |-> Num(Head(scores).AwayScore)]>>
          ELSE <<>>) \o Matches(p, Tail(scores))

RECURSIVE LeftMerge(_, _)
LeftMerge(log, scores) ==
    IF log = <<>> THEN <<>>
    ELSE (IF Matches(Head(log), scores) = <<>>
          THEN <<[pick |-> Head(log), home |-> NaN, away |-> NaN]>>
          ELSE Matches(Head(log), scores)) \o LeftMerge(Tail(log), scores)

\* home - away and home + away of lines 40-41; NaN when either is NaN
Minus(a, b) == IF a.nan \/ b.nan THEN NaN ELSE Num(a.val - b.val)

Plus(a, b) == IF a.nan \/ b.nan THEN NaN ELSE Num(a.val + b.val)

\* to_csv of a cell of a numeric column: blank for NaN, a float text when
\* the column holds a NaN (the column is float64 then), an int text otherwise
NumCell(x, asFloat) ==
    IF x.nan THEN T_Blank
    ELSE IF asFloat THEN IntStr(x.val) \o <<".", "0">>
    ELSE IntStr(x.val)

\* lines 39-54: one row of the rewritten log
MergedRow(m, asFloat) ==
    LET actual_margin == Minus(m.home, m.away)
        actual_total == Plus(m.home, m.away)
        tr == evaluate_total_result(m.pick.ModelPickTotal, actual_total)
    IN [m.pick EXCEPT
          !.ActualMargin = NumCell(actual_margin, asFloat),
          !.ActualTotal = NumCell(actual_total, asFloat),
          !.SpreadResult = evaluate_spread_result(m.pick.ModelPickSpread, actual_margin),
          !.TotalResult = IF tr = "None" THEN "NaN" ELSE tr]

\* lines 24-55 of merge_espn_into_picks_log.py
main ==
    /\ mpc = "scraped"
    /\ LET merged == LeftMerge(picks, espn)
           asFloat == \E k \in 1..Len(merged) : merged[k].home.nan
       IN picks' = [k \in 1..Len(merged) |-> MergedRow(merged[k], asFloat)]
    /\ mpc' = "merged"
    /\ UNCHANGED <<file, cache, log_df, pc, d, today, seed, api, fetched, writes, runs, sweep,
                   prevFinal, streak, espn, ev_in, ev_out>>

InitMerge ==
    /\ TrackerIdle
    /\ EvalIdle
    /\ espn = <<>>
    /\ picks = <<>>
    /\ mpc = "start"

NextMerge == run \/ run_scraper \/ main

SpecMerge == InitMerge /\ [][NextMerge]_vars

(***************************************************************************)
(* Properties of the tracker                                               *)
(***************************************************************************)
\* the natural key of a row: the date and the matchup "away @ home"
Key(r) == <<r.Date, r.Matchup>>

Results == {"WIN", "LOSS", "PUSH"}

Finalized(r) == r.SpreadResult \in Results \/ r.TotalResult \in Results

Outcome(r) == <<r.ActualMargin, r.SpreadResult, r.ActualTotal, r.TotalResult>>

MatchupOf(g) == g.away \o T_At \o g.home

\* C1: a complete run that follows a complete run, both with the same
\* answers of the endpoint and nothing in between but a possible restart of
\* the process, leaves the persisted log as the first run left it
C1_Idempotent ==
    [][(pc = "evaluate" /\ pc' = "done" /\ streak' = 2) => file' = prevFinal]_vars

C1_Witness ==
    /\ pc = "done"
    /\ streak = 2
    /\ Len(file) >= 2
    /\ \E k \in 1..Len(file) : Finalized(file[k])

\* C2: no two rows of the persisted log share (date, home, away)
C2_UniqueKeys ==
    \A j, k \in 1..Len(file) : j # k => Key(file[j]) # Key(file[k])

\* C3: a row whose spread or total result is WIN, LOSS or PUSH keeps its
\* results and its actual margin and total in every later state of the log
\* (a row is followed by its place in the log and its key)
C3_WriteOnce ==
    [][\A k \in 1..Len(file) :
          (k <= Len(file') /\ Key(file'[k]) = Key(file[k]) /\ Finalized(file[k]))
              => Outcome(file'[k]) = Outcome(file[k])]_vars

\* C5: when a run in which the schedule request failed for exactly one date
\* of the range ends, the persisted log holds an evaluated row for every
\* matchup of every other date of the range
C5_NoDateLost ==
    (pc = "done" /\ Cardinality(sweep.ok) = sweep.range - 1) =>
        \A dd \in sweep.ok : \A g \in 1..Len(api[dd].games) :
            \E k \in 1..Len(file) :
                /\ file[k].Date = dd
                /\ file[k].Matchup = MatchupOf(api[dd].games[g])
                /\ file[k].SpreadResult # "NaN"
                /\ file[k].TotalResult # "NaN"

\* C6: no step changes the Model Pick (Spread) or Model Pick (Total) of a
\* key that is in the persisted log before and after the step
C6_PicksImmutable ==
    [][\A j \in 1..Len(file), k \in 1..Len(file') :
          Key(file[j]) = Key(file'[k])
              => /\ file'[k].ModelPickSpread = file[j].ModelPickSpread
                 /\ file'[k].ModelPickTotal = file[j].ModelPickTotal]_vars

\* a complete run has regenerated the picks of a date already in the log,
\* in a process whose generator gives that matchup another pick
C6_Witness ==
    /\ pc = "done"
    /\ cache.set
    /\ runs >= 2
    /\ \E k \in 1..Len(file) :
         /\ file[k].Date \in sweep.ok
         /\ Finalized(file[k])
         /\ \E g \in 1..Len(api[file[k].Date].games) :
              LET p == ModelPick(seed, file[k].Date, api[file[k].Date].games[g])
              IN /\ p.Matchup = file[k].Matchup
                 /\ p.ModelPickSpread # file[k].ModelPickSpread
                 /\ p.ModelPickTotal # file[k].ModelPickTotal

\* C7: when a run ends, every row whose score request returned a final
\* score is evaluated from that score in the persisted log, and every row
\* whose score request failed is PENDING there
C7_FetchIsolation ==
    pc = "done" =>
        /\ Len(fetched) = Len(file)
        /\ \A k \in 1..Len(file) :
             LET sc == fetched[k].score
             IN /\ sc.some =>
                     /\ file[k].SpreadResult \in {"WIN", "LOSS"}
                     /\ file[k].TotalResult \in {"WIN", "LOSS"}
                     /\ file[k].ActualMargin = IntStr(sc.home - sc.away)
                     /\ file[k].ActualTotal = IntStr(sc.home + sc.away)
                /\ ~fetched[k].up =>
                     Outcome(file[k]) = <<T_Dash, "PENDING", T_Dash, "PENDING">>

\* a complete run in which the request failed for one row of a date and
\* was answered with a final score for another row of that date and for a
\* row of another date
C7_Witness ==
    /\ pc = "done"
    /\ \E j, k, m \in 1..Len(file) :
         /\ ~fetched[j].up
         /\ api[file[j].Date].ok
         /\ fetched[k].score.some
         /\ fetched[m].score.some
         /\ file[k].Date = file[j].Date
         /\ file[m].Date # file[j].Date

C8_MissingScorePending ==
    mpc = "merged" =>
        \A k \in 1..Len(picks) :
            (\A e \in 1..Len(espn) : ~SameGame(picks[k], espn[e]))
                => picks[k].SpreadResult = "PENDING" /\ picks[k].TotalResult = "PENDING"

\* the result the rules give: WIN and LOSS off the line, PUSH on it
ExpectedSpread(side, line, margin) ==
    IF side = "Home"
    THEN IF 100 * margin > line THEN "WIN"
         ELSE IF 100 * margin = line THEN "PUSH" ELSE "LOSS"
    ELSE IF 100 * margin < 0 - line THEN "WIN"
         ELSE IF 100 * margin = 0 - line THEN "PUSH" ELSE "LOSS"

ExpectedTotal(dir, line, total) ==
    IF 100 * total = line THEN "PUSH"
    ELSE IF dir = "Over"
    THEN IF 100 * total > line THEN "WIN" ELSE "LOSS"
    ELSE IF 100 * total < line THEN "WIN" ELSE "LOSS"

\* C4: every evaluator gives a well-formed prediction and a final score the
\* result of the rules: PUSH when the margin or the total is on the line,
\* WIN or LOSS off it
C4_PushBoundary ==
    LET sc == ev_in.score
        margin == sc.home - sc.away
        total == sc.home + sc.away
    IN /\ (ev_out.fn \in {"evaluate_row", "merge"} /\ sc.some
              /\ ev_in.spread.ok /\ ev_in.total.ok) =>
            /\ ev_out.spread = ExpectedSpread(ev_in.spread.side, ev_in.spread.line, margin)
            /\ ev_out.total = ExpectedTotal(ev_in.total.side, ev_in.total.line, total)
       /\ ev_out.fn = "generate" =>
            /\ ev_out.spread = ExpectedSpread(IF ev_out.spick = HomePick THEN "Home" ELSE "Away",
                                              150, margin)
            /\ ev_out.total = ExpectedTotal(IF ev_out.over THEN "Over" ELSE "Under",
                                            ev_out.tline, total)

\* C9: the evaluation of a malformed prediction ends without an exception
\* and gives the malformed leg no WIN, LOSS or PUSH
C9_MalformedUnresolved ==
    ev_out.fn \in {"evaluate_row", "merge"} =>
        /\ ~ev_out.raised
        /\ ~ev_in.spread.ok => ev_out.spread \notin Results
        /\ ~ev_in.total.ok => ev_out.total \notin Results

====
